---- MODULE Spec2Model ----
(***************************************************************************)
(* Workflow orchestration core of ai-company: the Workflow Manager, the    *)
(* two execution backends (CrewAI, Claude Code), the Context Manager and   *)
(* the Result Cache.                                                       *)
(*                                                                         *)
(* Python dictionaries are functions whose DOMAIN is the key set; lists    *)
(* are sequences; None is the string "None".  An operation that can raise  *)
(* returns a record with a field raised.                                   *)
(***************************************************************************)
EXTENDS Integers, Sequences, FiniteSets, TLC

VARIABLES
    backend,            \* the backend instance: kind, config, agent cache
    serial,             \* number of successful create_agent calls so far
    runs,               \* number of Workflow Manager runs started so far
    context_store,      \* ContextManager.context_store
    task_results,       \* ContextManager.task_results
    workflow_metadata,  \* ContextManager.workflow_metadata
    run,                \* what the last Workflow Manager run did and returned
    held,               \* handles a direct caller of the backend holds
    call,               \* what the last direct backend call did and returned
    built,              \* the call of build_context_for_task and its result,
                        \* when that was the last Context Manager call
    stored,             \* history: the results stored since the last clear
    aliases,            \* the dictionaries a direct caller of the Context
                        \* Manager holds, as they read now: the map it passed
                        \* to set_workflow_metadata and the context it got back
    cache,              \* the WorkflowCache instance in use: ttl_seconds, enabled
    cache_files,        \* the files of cache_dir: cache key -> mtime and content
    now,                \* time.time()
    lookup,             \* the last call of get or invalidate and what it returned
    written,            \* history: the last set per logical entry since the
                        \* last invalidate
    inflight,           \* the set and get calls that are under way, by caller
    environ,            \* os.environ: the value of AI_COMPANY_BACKEND
    config_file,        \* the YAML configuration file at the configured path
    made                \* the last call of BackendFactory.create_backend

cacheVars == <<cache, cache_files, now, lookup, written, inflight>>

factoryVars == <<environ, config_file, made>>

vars == <<backend, serial, runs, context_store, task_results, workflow_metadata,
          run, held, call, built, stored, aliases, cacheVars, factoryVars>>

None == "None"
EmptyDict == [k \in {} |-> k]
Range(s) == {s[i] : i \in DOMAIN s}

(***************************************************************************)
(* Bounds of the model.                                                    *)
(***************************************************************************)
MaxRuns == 2        \* Workflow Manager runs in one behaviour
MaxHeld == 2        \* handles of each sort a direct caller of the backend holds

(***************************************************************************)
(* The role catalog (models/hierarchy.py), in catalog order.               *)
(***************************************************************************)
Department ==
    {"executive", "marketing", "operations", "human_resources",
     "software_development", "commercial"}

Role(t, l, d) == [title |-> t, level |-> l, department |-> d]

get_hierarchy ==
    << Role("CEO", "executive", "executive"),
       Role("CTO", "executive", "executive"),
       Role("Head of Marketing", "head", "marketing"),
       Role("Head of Operations", "head", "operations"),
       Role("Head of HR", "head", "human_resources"),
       Role("Head of Software Development", "head", "software_development"),
       Role("Head of Commercial", "head", "commercial"),
       Role("Marketing Analyst", "analyst", "marketing"),
       Role("Content Marketing Expert", "expert", "marketing"),
       Role("Operations Analyst", "analyst", "operations"),
       Role("Quality Assurance Expert", "expert", "operations"),
       Role("Recruitment Specialist", "expert", "human_resources"),
       Role("HR Analyst", "analyst", "human_resources"),
       Role("Senior Software Developer", "senior", "software_development"),
       Role("Software Developer", "developer", "software_development"),
       Role("QA Analyst", "analyst", "software_development"),
       Role("Sales Analyst", "analyst", "commercial"),
       Role("Business Development Expert", "expert", "commercial") >>

InDepartment(d, role) == role.department = d

\* Mutant of get_roles_by_department: the roles in reverse catalog order.
get_roles_by_department_reversed(d) ==
    LET roles == SelectSeq(get_hierarchy, LAMBDA role : InDepartment(d, role))
    IN [i \in DOMAIN roles |-> roles[Len(roles) + 1 - i]]

get_roles_by_department(d) ==
    SelectSeq(get_hierarchy, LAMBDA role : InDepartment(d, role))

Titles(roles) == {roles[i].title : i \in DOMAIN roles}

(***************************************************************************)
(* AgentRole and TaskDefinition (backends/base.py).  Goal, backstory and   *)
(* skills are prompt text and are left out.                                *)
(***************************************************************************)
AgentRole(role) ==
    [role |-> role.title,
     department |-> role.department,
     level |-> role.level,
     can_delegate |-> role.level \in {"executive", "head"}]

TaskDefinition(description, agent_role, context, depends_on, task_id) ==
    [description |-> description,
     agent_role |-> agent_role,
     context |-> context,
     depends_on |-> depends_on,
     task_id |-> task_id]

(***************************************************************************)
(* The backends.  A backend instance is                                    *)
(*   [kind, parallel_execution, agents_cache]                              *)
(* where agents_cache is CrewAIBackend._agents_cache, respectively         *)
(* ClaudeCodeBackend._agent_definitions: a dictionary keyed by the display *)
(* title.  A CrewAI agent object is [role, serial], serial telling two     *)
(* objects built for the same title apart; the Claude Code handle is the   *)
(* title itself and carries serial 0.                                      *)
(***************************************************************************)
BackendType == {"crewai", "claude_code"}

NoAgent == [role |-> None, serial |-> 0]

NewBackend(kind, parallel) ==
    [kind |-> kind, parallel_execution |-> parallel, agents_cache |-> EmptyDict]

DictSet(d, k, v) == [x \in DOMAIN d \cup {k} |-> IF x = k THEN v ELSE d[x]]

\* CrewAIBackend.initialize clears the cache; ClaudeCodeBackend.initialize
\* stores the configuration and keeps _agent_definitions.
initialize(b, parallel) ==
    IF b.kind = "crewai"
    THEN [b EXCEPT !.agents_cache = EmptyDict]
    ELSE [b EXCEPT !.parallel_execution = parallel]

cleanup(b) == [b EXCEPT !.agents_cache = EmptyDict]

supports_parallel_execution(b) ==
    IF b.kind = "crewai" THEN FALSE ELSE b.parallel_execution

\* fails: the Agent(...) constructor (CrewAI) or the write of the subagent
\* file (Claude Code) raises; nothing is cached then.
create_agent(b, agent_def, s, fails) ==
    IF fails
    THEN [raised |-> TRUE, error |-> "agent_creation_failed",
          backend |-> b, serial |-> s, agent |-> NoAgent]
    ELSE LET agent == IF b.kind = "crewai"
                      THEN [role |-> agent_def.role, serial |-> s + 1]
                      ELSE [role |-> agent_def.role, serial |-> 0]
         IN [raised |-> FALSE, error |-> "none",
             backend |-> [b EXCEPT !.agents_cache =
                                       DictSet(@, agent_def.role, agent)],
             serial |-> s + 1,
             agent |-> agent]

NoTask ==
    [description |-> None, agent_role |-> None, agent |-> NoAgent,
     context |-> EmptyDict, depends_on |-> <<>>, task_id |-> None]

\* CrewAI looks the agent up by title and raises ValueError when it is not
\* cached; its Task keeps description, agent and expected_output only.
\* fails: the Task(...) constructor raises.
crewai_create_task(b, task_def, fails) ==
    IF task_def.agent_role \notin DOMAIN b.agents_cache
    THEN [raised |-> TRUE, error |-> "agent_not_found", task |-> NoTask]
    ELSE IF fails
    THEN [raised |-> TRUE, error |-> "task_creation_failed", task |-> NoTask]
    ELSE [raised |-> FALSE, error |-> "none",
          task |-> [description |-> task_def.description,
                    agent_role |-> task_def.agent_role,
                    agent |-> b.agents_cache[task_def.agent_role],
                    context |-> EmptyDict,
                    depends_on |-> <<>>,
                    task_id |-> None]]

\* Claude Code copies the definition into a dictionary and checks nothing.
claude_create_task(b, task_def) ==
    [raised |-> FALSE, error |-> "none",
     task |-> [description |-> task_def.description,
               agent_role |-> task_def.agent_role,
               agent |-> NoAgent,
               context |-> task_def.context,
               depends_on |-> task_def.depends_on,
               task_id |-> task_def.task_id]]

create_task(b, task_def, fails) ==
    IF b.kind = "crewai"
    THEN crewai_create_task(b, task_def, fails)
    ELSE claude_create_task(b, task_def)

(***************************************************************************)
(* ClaudeCodeBackend.execute_workflow.                                     *)
(***************************************************************************)
\* _role_to_filename without the ".md" suffix, on the titles the model uses:
\* the lower-cased title looked up in role_mappings, else with its blanks
\* replaced by underscores.
role_to_filename(role) ==
    CASE role = "CEO" -> "ceo"
      [] role = "CTO" -> "cto"
      [] role = "Head of Marketing" -> "head_of_marketing"
      [] role = "Head of Operations" -> "head_of_operations"
      [] role = "Head of HR" -> "head_of_hr"
      [] role = "Head of Human Resources" -> "head_of_hr"
      [] role = "Head of Software Development" -> "head_of_software_development"
      [] role = "Head of Commercial" -> "head_of_commercial"
      [] role = "Marketing Analyst" -> "marketing_analyst"
      [] role = "Content Marketing Expert" -> "content_marketing_expert"
      [] role = "Operations Analyst" -> "operations_analyst"
      [] role = "Quality Assurance Expert" -> "qa_expert"
      [] role = "Recruitment Specialist" -> "recruitment_specialist"
      [] role = "HR Analyst" -> "hr_analyst"
      [] role = "Senior Software Developer" -> "senior_developer"
      [] role = "Software Developer" -> "software_developer"
      [] role = "QA Analyst" -> "qa_analyst"
      [] role = "Sales Analyst" -> "sales_analyst"
      [] role = "Business Development Expert" -> "business_development_expert"
      [] role = "Test Agent" -> "test_agent"
      [] OTHER -> role

\* The key f"previous_output_{dep_id}" on the task ids the model uses.
previous_output_key(dep_id) ==
    CASE dep_id = "task_0" -> "previous_output_task_0"
      [] dep_id = "task_1" -> "previous_output_task_1"
      [] dep_id = "A" -> "previous_output_A"
      [] dep_id = "B" -> "previous_output_B"
      [] OTHER -> dep_id

\* The instruction text, by the values interpolated into it.
create_workflow_instruction(task, context) ==
    [agent |-> role_to_filename(task.agent_role),
     task |-> task.description,
     context |-> context]

\* Mutant of sequential_context: the output of every earlier task is
\* injected, declared as a dependency or not.
sequential_context_all_previous(task, task_outputs) ==
    LET keys == {previous_output_key(id) : id \in DOMAIN task_outputs}
    IN [k \in DOMAIN task.context \cup keys |->
           IF k \in keys
           THEN task_outputs[CHOOSE id \in DOMAIN task_outputs :
                                 previous_output_key(id) = k]
           ELSE task.context[k]]

\* The context a sequential task runs with: its own context, then the output
\* of each dependency that is already in task_outputs.
sequential_context(task, task_outputs) ==
    LET deps == task.depends_on
        F[j \in 0..Len(deps)] ==
            IF j = 0 THEN task.context
            ELSE IF deps[j] \in DOMAIN task_outputs
                 THEN DictSet(F[j - 1], previous_output_key(deps[j]),
                              task_outputs[deps[j]])
                 ELSE F[j - 1]
    IN F[Len(deps)]

\* task.get('task_id', f"task_{i}"): create_task always stores the key
\* 'task_id', so the default is never taken.
sequential_task_id(task, i) == task.task_id

\* The loop of _execute_sequential: results by agent role, and task_outputs
\* by task id.
sequential_run(tasks) ==
    LET F[i \in 0..Len(tasks)] ==
            IF i = 0 THEN [results |-> EmptyDict, task_outputs |-> EmptyDict]
            ELSE LET task == tasks[i]
                     prev == F[i - 1]
                     result == create_workflow_instruction(
                                   task, sequential_context(task, prev.task_outputs))
                 IN [results |-> DictSet(prev.results, task.agent_role, result),
                     task_outputs |-> DictSet(prev.task_outputs,
                                              sequential_task_id(task, i - 1),
                                              result)]
    IN F[Len(tasks)]

execute_sequential(tasks) == sequential_run(tasks).results

IsIndependent(task) == task.depends_on = <<>>

execute_parallel(tasks) ==
    LET independent_tasks == SelectSeq(tasks, IsIndependent)
        F[i \in 0..Len(independent_tasks)] ==
            IF i = 0 THEN EmptyDict
            ELSE LET task == independent_tasks[i]
                 IN DictSet(F[i - 1], task.agent_role,
                            create_workflow_instruction(task, task.context))
    IN F[Len(independent_tasks)]

\* The branch execute_workflow takes.
claude_executed_as(b, process_type) ==
    IF process_type = "parallel" /\ supports_parallel_execution(b)
    THEN "parallel" ELSE "sequential"

\* The "process" entry of the result metadata.
claude_reported_process(b, process_type) == process_type

claude_execute_workflow(b, agents, tasks, process_type) ==
    [raised |-> FALSE, error |-> "none",
     executed_as |-> claude_executed_as(b, process_type),
     result |->
        [success |-> TRUE,
         outputs |-> IF claude_executed_as(b, process_type) = "parallel"
                     THEN execute_parallel(tasks)
                     ELSE execute_sequential(tasks),
         metadata |-> [backend |-> "claude_code",
                       agents_count |-> Len(agents),
                       tasks_count |-> Len(tasks),
                       process |-> claude_reported_process(b, process_type)]]]

(***************************************************************************)
(* CrewAIBackend.execute_workflow.  crew_fails: the Crew(...) constructor, *)
(* which is outside the try block, raises.  kickoff_fails: crew.kickoff()  *)
(* raises, which is caught and reported in the result.                     *)
(***************************************************************************)
NoResult == [success |-> FALSE, outputs |-> EmptyDict, metadata |-> EmptyDict]

crewai_process(process_type) ==
    IF process_type = "sequential" THEN "sequential" ELSE "hierarchical"

crewai_outputs(tasks, process_type, kickoff_fails) ==
    IF kickoff_fails
    THEN [error |-> "kickoff_exception"]
    ELSE [result |-> [crew_output |-> [i \in DOMAIN tasks |-> tasks[i].description],
                      process |-> crewai_process(process_type)]]

crewai_execute_workflow(b, agents, tasks, process_type, crew_fails, kickoff_fails) ==
    IF crew_fails
    THEN [raised |-> TRUE, error |-> "workflow_execution_failed",
          executed_as |-> "none", result |-> NoResult]
    ELSE [raised |-> FALSE, error |-> "none",
          executed_as |-> crewai_process(process_type),
          result |->
             [success |-> ~kickoff_fails,
              outputs |-> crewai_outputs(tasks, process_type, kickoff_fails),
              metadata |-> [backend |-> "crewai",
                            agents_count |-> Len(agents),
                            tasks_count |-> Len(tasks),
                            process |-> process_type]]]

execute_workflow(b, agents, tasks, process_type, crew_fails, kickoff_fails) ==
    IF b.kind = "crewai"
    THEN crewai_execute_workflow(b, agents, tasks, process_type,
                                 crew_fails, kickoff_fails)
    ELSE claude_execute_workflow(b, agents, tasks, process_type)

(***************************************************************************)
(* The Context Manager, as operators on                                    *)
(*   [context_store, task_results, workflow_metadata].                     *)
(***************************************************************************)
NewContextManager ==
    [context_store |-> EmptyDict, task_results |-> EmptyDict,
     workflow_metadata |-> EmptyDict]

add_context(cm, task_id, context) ==
    [cm EXCEPT !.context_store = DictSet(@, task_id, context)]

get_context(cm, task_id) ==
    IF task_id \in DOMAIN cm.context_store
    THEN cm.context_store[task_id] ELSE EmptyDict

store_result(cm, task_id, result) ==
    [cm EXCEPT !.task_results = DictSet(@, task_id, result)]

\* The key f"output_from_{dep_id}" on the task ids the model uses.
output_from_key(dep_id) ==
    CASE dep_id = "A" -> "output_from_A"
      [] dep_id = "B" -> "output_from_B"
      [] OTHER -> dep_id

\* context.update(other)
DictUpdate(d, other) ==
    [k \in DOMAIN d \cup DOMAIN other |->
        IF k \in DOMAIN other THEN other[k] ELSE d[k]]

\* Mutant of add_dependency_results: an unresolved dependency is injected
\* as None (task_results.get(dep_id)) instead of being left out.
add_dependency_results_unchecked(cm, context, dependencies) ==
    LET F[j \in 0..Len(dependencies)] ==
            IF j = 0 THEN context
            ELSE DictSet(F[j - 1], output_from_key(dependencies[j]),
                         IF dependencies[j] \in DOMAIN cm.task_results
                         THEN cm.task_results[dependencies[j]] ELSE None)
    IN F[Len(dependencies)]

\* The loop "for dep_id in dependencies" of build_context_for_task.
add_dependency_results(cm, context, dependencies) ==
    LET F[j \in 0..Len(dependencies)] ==
            IF j = 0 THEN context
            ELSE IF dependencies[j] \in DOMAIN cm.task_results
                 THEN DictSet(F[j - 1], output_from_key(dependencies[j]),
                              cm.task_results[dependencies[j]])
                 ELSE F[j - 1]
    IN F[Len(dependencies)]

\* Mutant of build_context_for_task: the extra map is applied before the
\* dependency results.
build_context_for_task_extra_first(cm, task_id, dependencies, additional_context) ==
    LET own == get_context(cm, task_id)
        with_extra == IF DOMAIN additional_context # {}
                      THEN DictUpdate(own, additional_context)
                      ELSE own
        with_deps == add_dependency_results(cm, with_extra, dependencies)
    IN IF DOMAIN cm.workflow_metadata # {}
       THEN DictSet(with_deps, "workflow_metadata", cm.workflow_metadata)
       ELSE with_deps

build_context_for_task(cm, task_id, dependencies, additional_context) ==
    LET own == get_context(cm, task_id)
        with_deps == add_dependency_results(cm, own, dependencies)
        with_extra == IF DOMAIN additional_context # {}
                      THEN DictUpdate(with_deps, additional_context)
                      ELSE with_deps
    IN IF DOMAIN cm.workflow_metadata # {}
       THEN DictSet(with_extra, "workflow_metadata", cm.workflow_metadata)
       ELSE with_extra

set_workflow_metadata(cm, metadata) == [cm EXCEPT !.workflow_metadata = metadata]

clear(cm) ==
    [context_store |-> EmptyDict, task_results |-> EmptyDict,
     workflow_metadata |-> EmptyDict]

\* What the caller's dictionaries read after set_workflow_metadata(metadata)
\* with a new dictionary: self.workflow_metadata is bound to the caller's
\* object, and no longer to the one an earlier context refers to.
aliases_after_set(a, metadata) ==
    [a EXCEPT !.passed = [given |-> TRUE, map |-> metadata],
              !.shared = FALSE]

\* What they read after build_context_for_task returned context: line 97
\* stores the object self.workflow_metadata itself in the context.
aliases_after_build(a, cm, context) ==
    [a EXCEPT !.returned = [given |-> TRUE, context |-> context],
              !.shared = DOMAIN cm.workflow_metadata # {}]

\* What they read after clear(): self.workflow_metadata.clear() empties the
\* object in place, for every holder of a reference to it.
aliases_after_clear(a) ==
    [a EXCEPT !.passed.map = EmptyDict,
              !.returned.context =
                  IF a.shared THEN DictSet(@, "workflow_metadata", EmptyDict)
                  ELSE @]

(***************************************************************************)
(* The Workflow Manager.                                                   *)
(***************************************************************************)
role_to_agent_def(role) == AgentRole(role)

ParamGet(params, key, default) ==
    IF key \in DOMAIN params THEN params[key] ELSE default

\* The task template of each department: the scenario parameter its
\* descriptions interpolate, and the title each step names, in order.
department_template(department) ==
    CASE department = "marketing" ->
            [param |-> "campaign_goal", default |-> "brand awareness campaign",
             steps |-> <<"Marketing Analyst", "Content Marketing Expert",
                         "Head of Marketing">>]
      [] department = "software_development" ->
            [param |-> "feature", default |-> "new feature",
             steps |-> <<"Head of Software Development",
                         "Senior Software Developer", "QA Analyst">>]
      [] department = "operations" ->
            [param |-> "process", default |-> "business process",
             steps |-> <<"Operations Analyst", "Head of Operations">>]
      [] department = "human_resources" ->
            [param |-> "position", default |-> "key position",
             steps |-> <<"Recruitment Specialist", "Head of Human Resources">>]
      [] department = "commercial" ->
            [param |-> "product", default |-> "product",
             steps |-> <<"Sales Analyst", "Head of Commercial">>]
      [] department = "executive" ->
            [param |-> "scenario", default |-> "strategic initiative",
             steps |-> <<"CTO", "CEO">>]

Call(op, arg) == [op |-> op, arg |-> arg]

\* Mutant of create_agents: a create_agent call that raises is skipped and
\* the loop goes on.
create_agents_skipping_failures(b, s, roles, fail_at) ==
    LET F[i \in 0..Len(roles)] ==
            IF i = 0
            THEN [raised |-> FALSE, error |-> "none", backend |-> b,
                  serial |-> s, agents |-> <<>>, calls |-> <<>>]
            ELSE LET prev == F[i - 1]
                     r == create_agent(prev.backend, role_to_agent_def(roles[i]),
                                       prev.serial, fail_at = i)
                 IN [raised |-> FALSE, error |-> "none",
                     backend |-> r.backend,
                     serial |-> r.serial,
                     agents |-> IF r.raised THEN prev.agents
                                ELSE Append(prev.agents, r.agent),
                     calls |-> Append(prev.calls,
                                      Call("create_agent", roles[i].title))]
    IN F[Len(roles)]

\* The loop "for role in roles: agents.append(backend.create_agent(...))".
\* fail_at: the create_agent call that raises (0: none).
create_agents(b, s, roles, fail_at) ==
    LET F[i \in 0..Len(roles)] ==
            IF i = 0
            THEN [raised |-> FALSE, error |-> "none", backend |-> b,
                  serial |-> s, agents |-> <<>>, calls |-> <<>>]
            ELSE LET prev == F[i - 1]
                     r == create_agent(prev.backend, role_to_agent_def(roles[i]),
                                       prev.serial, fail_at = i)
                 IN IF prev.raised THEN prev
                    ELSE [raised |-> r.raised, error |-> r.error,
                          backend |-> r.backend,
                          serial |-> r.serial,
                          agents |-> IF r.raised THEN prev.agents
                                     ELSE Append(prev.agents, r.agent),
                          calls |-> Append(prev.calls,
                                           Call("create_agent", roles[i].title))]
    IN F[Len(roles)]

\* Mutant of StepApplies: every step of the template creates its task.
StepAppliesAlways(roles, title) == TRUE

\* One template step: "if any(r.title == T for r in roles): create_task".
StepApplies(roles, title) == title \in Titles(roles)

\* _create_<department>_tasks.  fail_at: the create_task call whose Task(...)
\* constructor raises (0: none).
create_department_tasks(b, department, roles, params, fail_at) ==
    LET tpl == department_template(department)
        arg == ParamGet(params, tpl.param, tpl.default)
        F[i \in 0..Len(tpl.steps)] ==
            IF i = 0
            THEN [raised |-> FALSE, error |-> "none", tasks |-> <<>>, calls |-> <<>>]
            ELSE LET prev == F[i - 1]
                     task_def == TaskDefinition(
                                     [of |-> department, step |-> i, arg |-> arg],
                                     tpl.steps[i], EmptyDict, <<>>, None)
                     r == create_task(b, task_def, fail_at = Len(prev.calls) + 1)
                 IN IF prev.raised \/ ~StepApplies(roles, tpl.steps[i]) THEN prev
                    ELSE [raised |-> r.raised, error |-> r.error,
                          tasks |-> IF r.raised THEN prev.tasks
                                    ELSE Append(prev.tasks, r.task),
                          calls |-> Append(prev.calls,
                                           Call("create_task", tpl.steps[i]))]
    IN F[Len(tpl.steps)]

\* _create_cross_functional_tasks: one task per role, in order.
create_cross_functional_tasks(b, roles, params, fail_at) ==
    LET arg == ParamGet(params, "initiative", "company initiative")
        F[i \in 0..Len(roles)] ==
            IF i = 0
            THEN [raised |-> FALSE, error |-> "none", tasks |-> <<>>, calls |-> <<>>]
            ELSE LET prev == F[i - 1]
                     task_def == TaskDefinition(
                                     [of |-> roles[i].department, step |-> 0,
                                      arg |-> arg],
                                     roles[i].title, EmptyDict, <<>>, None)
                     r == create_task(b, task_def, fail_at = i)
                 IN IF prev.raised THEN prev
                    ELSE [raised |-> r.raised, error |-> r.error,
                          tasks |-> IF r.raised THEN prev.tasks
                                    ELSE Append(prev.tasks, r.task),
                          calls |-> Append(prev.calls,
                                           Call("create_task", roles[i].title))]
    IN F[Len(roles)]

\* Mutant of department_head: an executive counts as a representative too.
department_head_or_executive(department) ==
    LET heads == SelectSeq(get_roles_by_department(department),
                           LAMBDA r : r.level \in {"head", "executive"})
    IN IF heads = <<>> THEN <<>> ELSE <<heads[1]>>

\* next((r for r in dept_roles if r.level.value == "head"), None), as the
\* sequence of at most one role.
department_head(department) ==
    LET heads == SelectSeq(get_roles_by_department(department),
                           LAMBDA r : r.level = "head")
    IN IF heads = <<>> THEN <<>> ELSE <<heads[1]>>

\* The loop over the departments of a cross-functional run: the head of each
\* department that has one gets an agent.  fail_at: the create_agent call
\* that raises (0: none).
create_head_agents(b, s, departments, fail_at) ==
    LET F[i \in 0..Len(departments)] ==
            IF i = 0
            THEN [raised |-> FALSE, error |-> "none", backend |-> b,
                  serial |-> s, agents |-> <<>>, roles |-> <<>>, calls |-> <<>>]
            ELSE LET prev == F[i - 1]
                     head == department_head(departments[i])
                     r == create_agent(prev.backend, role_to_agent_def(head[1]),
                                       prev.serial,
                                       fail_at = Len(prev.calls) + 1)
                 IN IF prev.raised \/ head = <<>> THEN prev
                    ELSE [raised |-> r.raised, error |-> r.error,
                          backend |-> r.backend, serial |-> r.serial,
                          agents |-> IF r.raised THEN prev.agents
                                     ELSE Append(prev.agents, r.agent),
                          roles |-> IF r.raised THEN prev.roles
                                    ELSE Append(prev.roles, head[1]),
                          calls |-> Append(prev.calls,
                                           Call("create_agent", head[1].title))]
    IN F[Len(departments)]

NoRun ==
    [op |-> "none", scopes |-> <<>>, outcome |-> "none", error |-> "none",
     participants |-> {}, agents |-> <<>>, tasks |-> <<>>,
     process_type |-> "none", supported |-> FALSE, executed_as |-> "none",
     outputs |-> EmptyDict, calls |-> <<>>]

FaultAt(fault, stage) == IF fault.at = stage THEN fault.k ELSE 0

\* The process type a single-scope run requests.
department_process_type(b) ==
    IF supports_parallel_execution(b) THEN "parallel" ELSE "sequential"

\* Mutant of cross_functional_process_type: chosen as for a single scope.
cross_functional_process_type_by_capability(b) == department_process_type(b)

\* The process type a cross-scope run requests.
cross_functional_process_type(b) == "sequential"

\* WorkflowManager.create_department_workflow, start to exit.
create_department_workflow(b, s, cm, department, params, fault, kickoff_fails) ==
    LET roles == get_roles_by_department(department)
        A == create_agents(b, s, roles, FaultAt(fault, "agent"))
        T == create_department_tasks(A.backend, department, roles, params,
                                     FaultAt(fault, "task"))
        cm1 == set_workflow_metadata(
                   cm, [department |-> department, scenario |-> params])
        process_type == department_process_type(A.backend)
        E == execute_workflow(A.backend, A.agents, T.tasks, process_type,
                              fault.at = "execute", kickoff_fails)
        base == [NoRun EXCEPT !.op = "department", !.scopes = <<department>>,
                              !.participants = Titles(roles),
                              !.agents = A.agents, !.calls = A.calls]
    IN IF A.raised
       THEN [backend |-> A.backend, serial |-> A.serial, cm |-> cm,
             run |-> [base EXCEPT !.outcome = "raised", !.error = A.error]]
       ELSE IF T.raised
       THEN [backend |-> A.backend, serial |-> A.serial, cm |-> cm,
             run |-> [base EXCEPT !.outcome = "raised", !.error = T.error,
                                  !.tasks = T.tasks, !.calls = @ \o T.calls]]
       ELSE IF E.raised
       THEN [backend |-> A.backend, serial |-> A.serial, cm |-> cm1,
             run |-> [base EXCEPT
                        !.outcome = "raised", !.error = E.error,
                        !.tasks = T.tasks, !.process_type = process_type,
                        !.supported = supports_parallel_execution(A.backend),
                        !.calls = @ \o T.calls
                                    \o <<Call("set_workflow_metadata", department),
                                         Call("execute_workflow", process_type)>>]]
       ELSE [backend |-> A.backend, serial |-> A.serial, cm |-> clear(cm1),
             run |-> [base EXCEPT
                        !.outcome = "returned",
                        !.tasks = T.tasks, !.process_type = process_type,
                        !.supported = supports_parallel_execution(A.backend),
                        !.executed_as = E.executed_as,
                        !.outputs = E.result.outputs,
                        !.calls = @ \o T.calls
                                    \o <<Call("set_workflow_metadata", department),
                                         Call("execute_workflow", process_type),
                                         Call("clear", "")>>]]

\* WorkflowManager.create_cross_functional_workflow, start to exit.
create_cross_functional_workflow(b, s, cm, departments, params, fault, kickoff_fails) ==
    LET A == create_head_agents(b, s, departments, FaultAt(fault, "agent"))
        T == create_cross_functional_tasks(A.backend, A.roles, params,
                                           FaultAt(fault, "task"))
        cm1 == set_workflow_metadata(
                   cm, [type |-> "cross_functional", departments |-> departments,
                        scenario |-> params])
        process_type == cross_functional_process_type(A.backend)
        E == execute_workflow(A.backend, A.agents, T.tasks, process_type,
                              fault.at = "execute", kickoff_fails)
        base == [NoRun EXCEPT !.op = "cross_functional", !.scopes = departments,
                              !.participants = Titles(A.roles),
                              !.agents = A.agents, !.calls = A.calls]
    IN IF A.raised
       THEN [backend |-> A.backend, serial |-> A.serial, cm |-> cm,
             run |-> [base EXCEPT !.outcome = "raised", !.error = A.error]]
       ELSE IF T.raised
       THEN [backend |-> A.backend, serial |-> A.serial, cm |-> cm,
             run |-> [base EXCEPT !.outcome = "raised", !.error = T.error,
                                  !.tasks = T.tasks, !.calls = @ \o T.calls]]
       ELSE IF E.raised
       THEN [backend |-> A.backend, serial |-> A.serial, cm |-> cm1,
             run |-> [base EXCEPT
                        !.outcome = "raised", !.error = E.error,
                        !.tasks = T.tasks, !.process_type = process_type,
                        !.supported = supports_parallel_execution(A.backend),
                        !.calls = @ \o T.calls
                                    \o <<Call("set_workflow_metadata", "cross_functional"),
                                         Call("execute_workflow", process_type)>>]]
       ELSE [backend |-> A.backend, serial |-> A.serial, cm |-> clear(cm1),
             run |-> [base EXCEPT
                        !.outcome = "returned",
                        !.tasks = T.tasks, !.process_type = process_type,
                        !.supported = supports_parallel_execution(A.backend),
                        !.executed_as = E.executed_as,
                        !.outputs = E.result.outputs,
                        !.calls = @ \o T.calls
                                    \o <<Call("set_workflow_metadata", "cross_functional"),
                                         Call("execute_workflow", process_type),
                                         Call("clear", "")>>]]

(***************************************************************************)
(* Specification Spec: one Workflow Manager with its backend and Context   *)
(* Manager; the caller starts department and cross-functional runs and     *)
(* re-initializes or cleans up the backend between them.                   *)
(***************************************************************************)
CM ==
    [context_store |-> context_store, task_results |-> task_results,
     workflow_metadata |-> workflow_metadata]

\* The scenario parameters a run is started with: some departments find
\* their parameter in it, the others fall back to their default.
ScenarioParams == {[campaign_goal |-> "X", initiative |-> "Y"]}

\* The scope lists a cross-functional run is started with: departments with
\* a head-level role, one (executive) without, in both orders, a repeated
\* department and the empty list.
ScopeLists ==
    { <<>>,
      <<"marketing">>,
      <<"executive">>,
      <<"marketing", "executive">>,
      <<"executive", "marketing">>,
      <<"operations", "marketing">>,
      <<"marketing", "marketing">>,
      <<"human_resources", "executive", "commercial">> }

\* The exits a run can be forced to take: a raising constructor or file write
\* in the k-th create_agent call, a raising Task(...) in the k-th create_task
\* call or a raising Crew(...) (CrewAI only).
Faults(kind, agent_calls, task_calls) ==
    {[at |-> "none", k |-> 0]}
        \cup {[at |-> "agent", k |-> i] : i \in 1..agent_calls}
        \cup (IF kind = "crewai"
              THEN {[at |-> "task", k |-> i] : i \in 1..task_calls}
                       \cup {[at |-> "execute", k |-> 0]}
              ELSE {})

TemplateCalls(department) ==
    Len(SelectSeq(department_template(department).steps,
                  LAMBDA t : StepApplies(get_roles_by_department(department), t)))

HeadCalls(departments) ==
    Cardinality({i \in DOMAIN departments : department_head(departments[i]) # <<>>})

KickoffChoices(fault) ==
    IF backend.kind = "crewai" /\ fault.at = "none" THEN BOOLEAN ELSE {FALSE}

(***************************************************************************)
(* WorkflowCache (utils/cache.py).  The cache directory is a function from *)
(* cache key to a file [mtime, readable, data]; readable is FALSE for a    *)
(* file that does not hold one complete JSON document.  A params dict is   *)
(* the sequence of its items in insertion order.                           *)
(***************************************************************************)
ttl_seconds_default == 3600

WorkflowCache(ttl_seconds, enabled) ==
    [ttl_seconds |-> ttl_seconds, enabled |-> enabled]

Item(k, v) == [k |-> k, v |-> v]

\* The dict as a mapping: what == compares on two Python dicts.
Mapping(params) ==
    [k \in {params[i].k : i \in DOMAIN params} |->
        params[CHOOSE i \in DOMAIN params : params[i].k = k].v]

\* Position of a key in the string order json.dumps(sort_keys=True) sorts by.
KeyOrder(k) ==
    CASE k = "budget" -> 1
      [] k = "goal" -> 2
      [] OTHER -> 3

\* Mutant of json_dumps_sort_keys: json.dumps without sort_keys writes the
\* items in insertion order.
json_dumps_insertion_order(params) == params

\* The items of a dict as json.dumps(..., sort_keys=True) writes them.
json_dumps_sort_keys(params) ==
    SortSeq(params, LAMBDA a, b : KeyOrder(a.k) < KeyOrder(b.k))

\* key_string of _generate_cache_key.  The md5 digest of key_string is
\* represented by key_string itself (distinct strings, distinct digests).
generate_cache_key(department, backend_name, params) ==
    [backend |-> backend_name, department |-> department,
     params |-> json_dumps_sort_keys(params)]

\* Python values a caller passes as result["outputs"].
PyStr(v) == [type |-> "str", v |-> v]
PyList(v) == [type |-> "list", v |-> v]
PyTuple(v) == [type |-> "tuple", v |-> v]
PyObject(v) == [type |-> "object", v |-> v]
PyNone == [type |-> "NoneType", v |-> None]

\* json.dump of a value: a JSON string, array or null, or TypeError for an
\* object the encoder does not know.
json_dump(value) ==
    CASE value.type = "str" -> [raised |-> FALSE, json |-> "string", v |-> value.v]
      [] value.type \in {"list", "tuple"} ->
             [raised |-> FALSE, json |-> "array", v |-> value.v]
      [] value.type = "NoneType" -> [raised |-> FALSE, json |-> "null", v |-> None]
      [] OTHER -> [raised |-> TRUE, json |-> "none", v |-> None]

\* json.load of a JSON string, array or null.
json_load(doc) ==
    CASE doc.json = "string" -> PyStr(doc.v)
      [] doc.json = "array" -> PyList(doc.v)
      [] OTHER -> PyNone

\* A file that holds one complete JSON document, and one that does not.
ReadableFile(mtime, data) == [mtime |-> mtime, readable |-> TRUE, data |-> data]

CorruptFile(mtime) ==
    [mtime |-> mtime, readable |-> FALSE,
     data |-> [department |-> None, backend |-> None, params |-> EmptyDict,
               result |-> json_dump(PyNone), cached_at |-> mtime,
               ttl_seconds |-> 0]]

is_cache_valid(c, files, t, key) ==
    /\ key \in DOMAIN files
    /\ t - files[key].mtime < c.ttl_seconds

DictRemove(d, k) == [x \in DOMAIN d \ {k} |-> d[x]]

\* WorkflowCache.get: the value returned and the files left behind.
get(c, files, t, department, backend_name, params) ==
    IF ~c.enabled THEN [result |-> PyNone, files |-> files]
    ELSE LET key == generate_cache_key(department, backend_name, params)
         IN IF ~is_cache_valid(c, files, t, key)
            THEN [result |-> PyNone, files |-> files]
            ELSE IF ~files[key].readable
                 THEN [result |-> PyNone, files |-> DictRemove(files, key)]
                 ELSE [result |-> json_load(files[key].data.result),
                       files |-> files]

\* WorkflowCache.set: the files left behind.  fault is "write" when json.dump
\* raises IOError after open() truncated the file; an unserializable result
\* raises TypeError in the same place.  Both are caught and logged.
set(c, files, t, department, backend_name, params, result, fault) ==
    IF ~c.enabled THEN files
    ELSE LET key == generate_cache_key(department, backend_name, params)
             doc == json_dump(result)
         IN IF fault = "write" \/ doc.raised
            THEN DictSet(files, key, CorruptFile(t))
            ELSE DictSet(files, key,
                         ReadableFile(t, [department |-> department,
                                          backend |-> backend_name,
                                          params |-> Mapping(params),
                                          result |-> doc,
                                          cached_at |-> t,
                                          ttl_seconds |-> c.ttl_seconds]))

\* Whether set leaves a complete record of result in the file.
set_wrote(c, result, fault) ==
    c.enabled /\ fault = "none" /\ ~json_dump(result).raised

\* Mutant of should_invalidate: a record is removed when it passes either
\* filter.
should_invalidate_either(data, department, backend_name) ==
    \/ department = None \/ data.department = department
    \/ backend_name = None \/ data.backend = backend_name

\* The test "should_invalidate" of invalidate on one readable record;
\* a filter of None is falsy and filters nothing.
should_invalidate(data, department, backend_name) ==
    /\ department = None \/ data.department = department
    /\ backend_name = None \/ data.backend = backend_name

\* WorkflowCache.invalidate: the count returned and the files left behind.
invalidate(c, files, department, backend_name) ==
    IF ~c.enabled THEN [count |-> 0, files |-> files]
    ELSE LET removed == {key \in DOMAIN files :
                            \/ ~files[key].readable
                            \/ should_invalidate(files[key].data,
                                                 department, backend_name)}
         IN [count |-> Cardinality(removed),
             files |-> [key \in DOMAIN files \ removed |-> files[key]]]

NoLookup ==
    [op |-> "none", department |-> None, backend |-> None, params |-> <<>>,
     result |-> PyNone, count |-> 0]

(***************************************************************************)
(* BackendFactory and ConfigLoader (backends/factory.py,                   *)
(* config/config_loader.py, exceptions.py).  A configuration is a dict     *)
(* with an optional key backend and optional per-backend sections.         *)
(***************************************************************************)
\* The base class of each exception class.
ExceptionBase(cls) ==
    CASE cls = "ConfigurationError" -> "AICompanyError"
      [] cls = "BackendNotAvailableError" -> "BackendError"
      [] cls = "BackendError" -> "AICompanyError"
      [] cls = "AICompanyError" -> "Exception"
      [] cls = "ValueError" -> "Exception"
      [] cls = "ImportError" -> "Exception"
      [] OTHER -> "BaseException"

\* issubclass(cls, base): what an except clause or pytest.raises tests.
RECURSIVE issubclass(_, _)
issubclass(cls, base) ==
    \/ cls = base
    \/ cls # "BaseException" /\ issubclass(ExceptionBase(cls), base)

NoError == [type |-> "none", message |-> "none", valid |-> <<>>]

\* [bt.value for bt in BackendType]
BackendTypeValues == <<"crewai", "claude_code">>

\* str.lower() on the identifiers used.
lower(text) ==
    CASE text = "CREWAI" -> "crewai"
      [] text = "Claude_Code" -> "claude_code"
      [] OTHER -> text

get_default_config ==
    [backend |-> "crewai", claude_code |-> [parallel_execution |-> TRUE]]

MissingFile == [state |-> "missing", config |-> EmptyDict]
InvalidFile == [state |-> "invalid", config |-> EmptyDict]
YamlFile(config) == [state |-> "ok", config |-> config]

\* ConfigLoader._load_yaml_config: a missing or empty file gives the default
\* configuration, invalid YAML raises ValueError.
load_yaml_config(file) ==
    IF file.state = "missing"
    THEN [raised |-> FALSE, config |-> get_default_config]
    ELSE IF file.state = "invalid"
         THEN [raised |-> TRUE, config |-> EmptyDict]
         ELSE [raised |-> FALSE,
               config |-> IF DOMAIN file.config = {}
                          THEN get_default_config ELSE file.config]

\* Mutant of load_config: AI_COMPANY_BACKEND is used only when the file names
\* no backend.
load_config_file_first(file, env) ==
    LET loaded == load_yaml_config(file)
    IN IF loaded.raised THEN loaded
       ELSE IF env # None /\ env # "" /\ "backend" \notin DOMAIN loaded.config
            THEN [raised |-> FALSE, config |-> DictSet(loaded.config, "backend", env)]
            ELSE loaded

\* ConfigLoader.load_config: a non-empty AI_COMPANY_BACKEND overrides the
\* backend of the file.
load_config(file, env) ==
    LET loaded == load_yaml_config(file)
    IN IF loaded.raised THEN loaded
       ELSE IF env # None /\ env # ""
            THEN [raised |-> FALSE, config |-> DictSet(loaded.config, "backend", env)]
            ELSE loaded

\* ConfigLoader.get_backend_config(name, config): config.get(name, {}).
get_backend_config(backend_name, config) ==
    IF backend_name \in DOMAIN config THEN config[backend_name] ELSE EmptyDict

\* config.get('parallel_execution', True) of the Claude Code backend.
configured_parallel(backend_config) ==
    IF "parallel_execution" \in DOMAIN backend_config
    THEN backend_config["parallel_execution"] ELSE TRUE

NoBackend == NewBackend("none", FALSE)

NoConfig == [given |-> FALSE, config |-> EmptyDict]
GivenConfig(config) == [given |-> TRUE, config |-> config]

\* Mutant of resolve_backend_type: an unknown identifier falls back to
\* crewai.
resolve_backend_type_or_default(backend_type, config) ==
    LET named == lower(IF backend_type # None THEN backend_type
                       ELSE IF "backend" \in DOMAIN config THEN config["backend"]
                            ELSE "crewai")
    IN IF named \in BackendType THEN named ELSE "crewai"

\* The backend identifier create_backend resolves, lines 40-44.
resolve_backend_type(backend_type, config) ==
    lower(IF backend_type # None THEN backend_type
          ELSE IF "backend" \in DOMAIN config THEN config["backend"]
               ELSE "crewai")

\* BackendFactory.create_backend(backend_type, config).  import_fails: the
\* import of claude_code_backend raises ImportError.
create_backend(backend_type, config_arg, file, env, import_fails) ==
    LET loaded == IF config_arg.given
                  THEN [raised |-> FALSE, config |-> config_arg.config]
                  ELSE load_config(file, env)
        resolved == resolve_backend_type(backend_type, loaded.config)
        failed(error) == [raised |-> TRUE, error |-> error, resolved |-> resolved,
                          backend |-> NoBackend, initialized |-> FALSE]
    IN IF loaded.raised
       THEN [raised |-> TRUE,
             error |-> [type |-> "ValueError", message |-> "Invalid YAML in config file",
                        valid |-> <<>>],
             resolved |-> None, backend |-> NoBackend, initialized |-> FALSE]
       ELSE IF resolved = "crewai"
       THEN [raised |-> FALSE, error |-> NoError, resolved |-> resolved,
             backend |-> initialize(NewBackend("crewai", FALSE), FALSE),
             initialized |-> TRUE]
       ELSE IF resolved = "claude_code"
       THEN IF import_fails
            THEN failed([type |-> "BackendNotAvailableError",
                         message |-> "Claude Code backend not available",
                         valid |-> <<>>])
            ELSE [raised |-> FALSE, error |-> NoError, resolved |-> resolved,
                  backend |-> initialize(
                      NewBackend("claude_code", TRUE),
                      configured_parallel(
                          get_backend_config("claude_code", loaded.config))),
                  initialized |-> TRUE]
       ELSE failed([type |-> "ConfigurationError",
                    message |-> "Unknown backend type",
                    valid |-> BackendTypeValues])

NoMade ==
    [op |-> "none", backend_type |-> None, config |-> NoConfig,
     file |-> MissingFile, env |-> None,
     raised |-> FALSE, error |-> NoError, resolved |-> None,
     backend |-> NoBackend, initialized |-> FALSE]

InitFactory ==
    /\ environ = None
    /\ config_file = MissingFile
    /\ made = NoMade

NoHeld == [agents |-> <<>>, tasks |-> <<>>, session |-> {}]

NoCall ==
    [op |-> "none", role |-> None, known |-> FALSE, raised |-> FALSE,
     error |-> "none", process_type |-> "none", executed_as |-> "none",
     result |-> NoResult]

NoBuilt ==
    [op |-> "none", task_id |-> None, dependencies |-> <<>>,
     additional_context |-> EmptyDict, own |-> EmptyDict, context |-> EmptyDict]

\* passed: the dictionary the caller passed to the last
\* set_workflow_metadata; returned: the dictionary the last
\* build_context_for_task returned; shared: its "workflow_metadata" entry is
\* the object self.workflow_metadata is bound to.
NoAliases ==
    [passed |-> [given |-> FALSE, map |-> EmptyDict],
     returned |-> [given |-> FALSE, context |-> EmptyDict],
     shared |-> FALSE]

InitManager(backends) ==
    /\ backend \in backends
    /\ serial = 0
    /\ runs = 0
    /\ context_store = EmptyDict
    /\ task_results = EmptyDict
    /\ workflow_metadata = EmptyDict
    /\ run = NoRun
    /\ held = NoHeld
    /\ call = NoCall
    /\ built = NoBuilt
    /\ stored = EmptyDict
    /\ aliases = NoAliases

\* The callers that may be inside set at the same time.
Writers == {"w1", "w2"}

IdleSet == [pc |-> "idle", department |-> None, result |-> PyNone, linked |-> FALSE]

IdleGet ==
    [pc |-> "idle", department |-> None, outcome |-> "none", error |-> "none",
     result |-> PyNone]

NoInflight == [sets |-> [w \in Writers |-> IdleSet], get |-> IdleGet]

InitStore ==
    /\ cache_files = EmptyDict
    /\ now = 0
    /\ lookup = NoLookup
    /\ written = EmptyDict
    /\ inflight = NoInflight

Init ==
    /\ InitManager({NewBackend("crewai", FALSE)}
                    \cup {NewBackend("claude_code", p) : p \in BOOLEAN})
    /\ cache = WorkflowCache(ttl_seconds_default, TRUE)
    /\ InitStore
    /\ InitFactory

Commit(r) ==
    /\ backend' = r.backend
    /\ serial' = r.serial
    /\ runs' = runs + 1
    /\ context_store' = r.cm.context_store
    /\ task_results' = r.cm.task_results
    /\ workflow_metadata' = r.cm.workflow_metadata
    /\ run' = r.run
    /\ UNCHANGED <<aliases, factoryVars, cacheVars, held, call, built, stored>>

CreateDepartmentWorkflow ==
    \E department \in Department, params \in ScenarioParams :
      \E fault \in Faults(backend.kind,
                          Len(get_roles_by_department(department)),
                          TemplateCalls(department)) :
        \E kickoff_fails \in KickoffChoices(fault) :
          /\ runs < MaxRuns
          /\ Commit(create_department_workflow(backend, serial, CM, department,
                                               params, fault, kickoff_fails))

CreateCrossFunctionalWorkflow ==
    \E departments \in ScopeLists, params \in ScenarioParams :
      \E fault \in Faults(backend.kind, HeadCalls(departments),
                          HeadCalls(departments)) :
        \E kickoff_fails \in KickoffChoices(fault) :
          /\ runs < MaxRuns
          /\ Commit(create_cross_functional_workflow(
                        backend, serial, CM, departments, params, fault,
                        kickoff_fails))

Initialize ==
    \E parallel \in BOOLEAN :
      /\ backend' = initialize(backend, parallel)
      /\ UNCHANGED <<aliases, factoryVars, cacheVars, serial, runs, context_store, task_results,
                     workflow_metadata, run, held, call, built, stored>>

Cleanup ==
    /\ backend' = cleanup(backend)
    /\ UNCHANGED <<aliases, factoryVars, cacheVars, serial, runs, context_store, task_results,
                   workflow_metadata, run, held, call, built, stored>>

Next ==
    \/ CreateDepartmentWorkflow
    \/ CreateCrossFunctionalWorkflow
    \/ Initialize
    \/ Cleanup

Spec == Init /\ [][Next]_vars

(***************************************************************************)
(* Specification SpecBackend: a caller drives one backend directly through *)
(* the BaseBackend interface.  held.agents and held.tasks are the handles  *)
(* the caller got back; held.session is the set of titles create_agent     *)
(* succeeded for since the last initialize or cleanup.                     *)
(***************************************************************************)
DirectRoles ==
    { Role("CEO", "executive", "executive"),
      Role("Marketing Analyst", "analyst", "marketing") }

ProcessTypes == {"sequential", "parallel"}

BackendCreateAgent ==
    \E role \in DirectRoles, fails \in BOOLEAN :
      LET r == create_agent(backend, role_to_agent_def(role), serial, fails)
      IN /\ Len(held.agents) < MaxHeld
         /\ backend' = r.backend
         /\ serial' = r.serial
         /\ held' = IF r.raised THEN held
                    ELSE [held EXCEPT !.agents = Append(@, r.agent),
                                      !.session = @ \cup {role.title}]
         /\ call' = [NoCall EXCEPT !.op = "create_agent", !.role = role.title,
                                   !.raised = r.raised, !.error = r.error]
         /\ UNCHANGED <<aliases, factoryVars, cacheVars, runs, context_store, task_results, workflow_metadata,
                        run, built, stored>>

\* The task id and the dependencies a directly created task declares: none,
\* an explicit id, a dependency on the first task by its positional id, and
\* a dependency on an explicit id.
DirectTaskShapes ==
    { [task_id |-> None, depends_on |-> <<>>],
      [task_id |-> "A", depends_on |-> <<>>],
      [task_id |-> None, depends_on |-> <<"task_0">>],
      [task_id |-> "B", depends_on |-> <<"A">>] }

BackendCreateTask ==
    \E role \in DirectRoles, shape \in DirectTaskShapes, fails \in BOOLEAN :
      LET task_def == TaskDefinition([of |-> "direct", step |-> 0, arg |-> ""],
                                     role.title, EmptyDict, shape.depends_on,
                                     shape.task_id)
          r == create_task(backend, task_def, fails)
      IN /\ Len(held.tasks) < MaxHeld
         /\ fails => backend.kind = "crewai"
         /\ held' = IF r.raised THEN held
                    ELSE [held EXCEPT !.tasks = Append(@, r.task)]
         /\ call' = [NoCall EXCEPT !.op = "create_task", !.role = role.title,
                                   !.known = role.title \in held.session,
                                   !.raised = r.raised, !.error = r.error]
         /\ UNCHANGED <<aliases, factoryVars, cacheVars, backend, serial, runs, context_store, task_results,
                        workflow_metadata, run, built, stored>>

BackendExecuteWorkflow ==
    \E process_type \in ProcessTypes, crew_fails \in BOOLEAN,
       kickoff_fails \in BOOLEAN :
      LET r == execute_workflow(backend, held.agents, held.tasks, process_type,
                                crew_fails, kickoff_fails)
      IN /\ (crew_fails \/ kickoff_fails) => backend.kind = "crewai"
         /\ ~(crew_fails /\ kickoff_fails)
         /\ call' = [NoCall EXCEPT !.op = "execute_workflow",
                                   !.raised = r.raised, !.error = r.error,
                                   !.process_type = process_type,
                                   !.executed_as = r.executed_as,
                                   !.result = r.result]
         /\ UNCHANGED <<aliases, factoryVars, cacheVars, backend, serial, runs, context_store, task_results,
                        workflow_metadata, run, held, built, stored>>

BackendInitialize ==
    \E parallel \in BOOLEAN :
      /\ backend' = initialize(backend, parallel)
      /\ held' = [held EXCEPT !.session = {}]
      /\ call' = [NoCall EXCEPT !.op = "initialize"]
      /\ UNCHANGED <<aliases, factoryVars, cacheVars, serial, runs, context_store, task_results,
                     workflow_metadata, run, built, stored>>

BackendCleanup ==
    /\ backend' = cleanup(backend)
    /\ held' = [held EXCEPT !.session = {}]
    /\ call' = [NoCall EXCEPT !.op = "cleanup"]
    /\ UNCHANGED <<aliases, factoryVars, cacheVars, serial, runs, context_store, task_results,
                   workflow_metadata, run, built, stored>>

NextBackend ==
    \/ BackendCreateAgent
    \/ BackendCreateTask
    \/ BackendExecuteWorkflow
    \/ BackendInitialize
    \/ BackendCleanup

SpecBackend == Init /\ [][NextBackend]_vars

(***************************************************************************)
(* Claims about the Workflow Manager (specification Spec).                 *)
(***************************************************************************)
IsEmptyDict(d) == DOMAIN d = {}

AgentRoles(agents) == [i \in DOMAIN agents |-> agents[i].role]

TaskRoles(tasks) == [i \in DOMAIN tasks |-> tasks[i].agent_role]

IsPrefix(a, b) == Len(a) <= Len(b) /\ \A i \in DOMAIN a : a[i] = b[i]

\* C1: after any run of create_department_workflow or
\* create_cross_functional_workflow, returned or raised, the Context
\* Manager's context store, result store and workflow metadata are empty.
C1_CleanupAfterAnyRun ==
    run.op # "none" =>
        /\ IsEmptyDict(context_store)
        /\ IsEmptyDict(task_results)
        /\ IsEmptyDict(workflow_metadata)

\* C6: the keys of the outputs a department run returns are role identities
\* of participants for which the run created agents.
C6_OutputKeysAreParticipants ==
    (run.op = "department" /\ run.outcome = "returned") =>
        DOMAIN run.outputs \subseteq Range(AgentRoles(run.agents))

\* The head-level titles the catalog lists for a department.
HeadTitles(department) ==
    {r.title : r \in {x \in Range(get_hierarchy) :
                          x.department = department /\ x.level = "head"}}

RECURSIVE Representatives(_)
Representatives(departments) ==
    IF departments = <<>> THEN <<>>
    ELSE (IF HeadTitles(Head(departments)) = {} THEN <<>>
          ELSE <<CHOOSE t \in HeadTitles(Head(departments)) : TRUE>>)
         \o Representatives(Tail(departments))

\* C7: a cross-functional run creates one agent and one task for each listed
\* scope that has a head-level role, in the order listed, and nothing and no
\* error for a listed scope without one: a run that returns has created
\* exactly these, and a run that raised has created a prefix of them and
\* raised for another reason than a missing agent.
C7_OneRepresentativePerScope ==
    run.op = "cross_functional" =>
        /\ run.error # "agent_not_found"
        /\ IsPrefix(AgentRoles(run.agents), Representatives(run.scopes))
        /\ IsPrefix(TaskRoles(run.tasks), Representatives(run.scopes))
        /\ run.outcome = "returned" =>
               /\ AgentRoles(run.agents) = Representatives(run.scopes)
               /\ TaskRoles(run.tasks) = Representatives(run.scopes)

\* C7 witness: the run over [marketing (has a head), executive (has none)]
\* returned with one agent and one task, both of the Head of Marketing.
C7_Witness ==
    /\ run.op = "cross_functional"
    /\ run.scopes = <<"marketing", "executive">>
    /\ run.outcome = "returned"
    /\ AgentRoles(run.agents) = <<"Head of Marketing">>
    /\ TaskRoles(run.tasks) = <<"Head of Marketing">>

\* C9: a department run requests "parallel" exactly when the backend supports
\* parallel execution and "sequential" otherwise; a cross-functional run
\* always requests "sequential".
C9_ModeSelection ==
    [][(runs' = runs + 1 /\ run'.process_type # "none") =>
          /\ run'.op = "department" =>
                 run'.process_type =
                     (IF backend.kind = "claude_code" /\ backend.parallel_execution
                      THEN "parallel" ELSE "sequential")
          /\ run'.op = "cross_functional" => run'.process_type = "sequential"]_vars

\* C9 witness: a cross-functional run on a backend that supports parallel
\* execution requested "sequential".
C9_Witness ==
    /\ run.op = "cross_functional"
    /\ run.supported
    /\ run.process_type = "sequential"
    /\ Len(run.tasks) > 0

(***************************************************************************)
(* Claims about the backends (specification SpecBackend).                  *)
(***************************************************************************)
\* C8: create_task for a role that has had no create_agent since the last
\* initialize or cleanup fails with an agent-not-found error and returns no
\* task handle, for every backend.
C8_TaskWithoutAgentFails ==
    (call.op = "create_task" /\ ~call.known) =>
        (call.raised /\ call.error = "agent_not_found")

\* C10: the mode recorded in WorkflowResult.metadata is the mode the backend
\* executed the batch in, for every backend and every requested mode.
C10_ReportedModeIsModeUsed ==
    (call.op = "execute_workflow" /\ ~call.raised) =>
        call.result.metadata.process = call.executed_as

(***************************************************************************)
(* Specification SpecContext: a caller drives one Context Manager through  *)
(* its public methods.                                                     *)
(***************************************************************************)
TaskIds == {"A", "B"}

TaskResultValues == {"r1", "r2"}

\* Contexts a task declares; one of them uses a key of the form
\* output_from_<id> itself.
DeclaredContexts == {[k |-> "v"], [output_from_A |-> "v"]}

\* The extra map: none, or one that uses the key of a dependency result and
\* the key of the workflow metadata.
AdditionalContexts ==
    {EmptyDict,
     [output_from_B |-> "w", workflow_metadata |-> [department |-> "extra"]]}

MetadataValues == {[department |-> "marketing"], [type |-> "cross_functional"]}

DependencyLists == {<<>>, <<"A">>, <<"B">>, <<"A", "B">>}

SetCM(cm) ==
    /\ context_store' = cm.context_store
    /\ task_results' = cm.task_results
    /\ workflow_metadata' = cm.workflow_metadata

AddContext ==
    \E task_id \in TaskIds, context \in DeclaredContexts :
      /\ SetCM(add_context(CM, task_id, context))
      /\ built' = NoBuilt
      /\ UNCHANGED <<factoryVars, cacheVars, backend, serial, runs, run, held,
                     call, stored, aliases>>

StoreResult ==
    \E task_id \in TaskIds, result \in TaskResultValues :
      /\ SetCM(store_result(CM, task_id, result))
      /\ stored' = DictSet(stored, task_id, result)
      /\ built' = NoBuilt
      /\ UNCHANGED <<factoryVars, cacheVars, backend, serial, runs, run, held,
                     call, aliases>>

SetWorkflowMetadata ==
    \E metadata \in MetadataValues :
      /\ SetCM(set_workflow_metadata(CM, metadata))
      /\ aliases' = aliases_after_set(aliases, metadata)
      /\ built' = NoBuilt
      /\ UNCHANGED <<factoryVars, cacheVars, backend, serial, runs, run, held,
                     call, stored>>

Clear ==
    /\ SetCM(clear(CM))
    /\ stored' = EmptyDict
    /\ aliases' = aliases_after_clear(aliases)
    /\ built' = NoBuilt
    /\ UNCHANGED <<factoryVars, cacheVars, backend, serial, runs, run, held, call>>

BuildContextForTask ==
    \E task_id \in TaskIds, dependencies \in DependencyLists,
       additional_context \in AdditionalContexts :
      LET context == build_context_for_task(CM, task_id, dependencies,
                                            additional_context)
      IN /\ built' = [op |-> "build_context_for_task", task_id |-> task_id,
                      dependencies |-> dependencies,
                      additional_context |-> additional_context,
                      own |-> get_context(CM, task_id),
                      context |-> context]
         /\ aliases' = aliases_after_build(aliases, CM, context)
         /\ UNCHANGED <<factoryVars, cacheVars, backend, serial, runs,
                        context_store, task_results, workflow_metadata, run,
                        held, call, stored>>

NextContext ==
    \/ AddContext
    \/ StoreResult
    \/ SetWorkflowMetadata
    \/ Clear
    \/ BuildContextForTask

InitContext ==
    /\ InitManager({NewBackend("crewai", FALSE)})
    /\ cache = WorkflowCache(ttl_seconds_default, TRUE)
    /\ InitStore
    /\ InitFactory

SpecContext == InitContext /\ [][NextContext]_vars

(***************************************************************************)
(* Claims about the Context Manager (specification SpecContext).           *)
(***************************************************************************)
\* C2: build_context_for_task(B, [A], {}) contains the key output_from_A
\* with A's stored result if store_result(A, r) has happened since the last
\* clear, and contains no key output_from_A otherwise.
C2_DependencyOutputIffStored ==
    [][(built'.op = "build_context_for_task"
        /\ UNCHANGED <<context_store, task_results, workflow_metadata>>
        /\ Len(built'.dependencies) = 1
        /\ built'.additional_context = EmptyDict) =>
          LET dep == built'.dependencies[1]
              key == output_from_key(dep)
          IN IF dep \in DOMAIN stored
             THEN key \in DOMAIN built'.context /\ built'.context[key] = stored[dep]
             ELSE key \notin DOMAIN built'.context]_vars

\* C2 as amended: build_context_for_task(B, [A], {}) contains the key
\* output_from_A with A's stored result if store_result(A, r) has happened
\* since the last clear; otherwise it contains a key output_from_A only if
\* B's own declared context has that key, with the declared value.
C2_DependencyOutputIffStoredOrDeclared ==
    [][(built'.op = "build_context_for_task"
        /\ UNCHANGED <<context_store, task_results, workflow_metadata>>
        /\ Len(built'.dependencies) = 1
        /\ built'.additional_context = EmptyDict) =>
          LET dep == built'.dependencies[1]
              key == output_from_key(dep)
          IN IF dep \in DOMAIN stored
             THEN key \in DOMAIN built'.context /\ built'.context[key] = stored[dep]
             ELSE /\ key \in DOMAIN built'.context <=> key \in DOMAIN built'.own
                  /\ key \in DOMAIN built'.context =>
                         built'.context[key] = built'.own[key]]_vars

\* C2 witness: a context built for B over [A] with no extra context holds
\* A's stored result under output_from_A.
C2_Witness ==
    /\ built.op = "build_context_for_task"
    /\ built.task_id = "B"
    /\ built.dependencies = <<"A">>
    /\ built.additional_context = EmptyDict
    /\ "A" \in DOMAIN stored
    /\ "output_from_A" \in DOMAIN built.context
    /\ built.context["output_from_A"] = stored["A"]

(***************************************************************************)
(* Specification SpecCache: a caller drives a WorkflowCache over one cache *)
(* directory while time passes; the cache object may be replaced by one    *)
(* with another configuration over the same directory.                     *)
(***************************************************************************)
MaxTime == 3

MaxTtl == 2

TtlValues == 0..MaxTtl

CacheDepartments == {"marketing"}

CacheBackends == {"crewai"}

\* One logical mapping in its two insertion orders.
CacheParams ==
    {<<Item("goal", "x"), Item("budget", "y")>>,
     <<Item("budget", "y"), Item("goal", "x")>>}

CacheResults == {PyStr("report"), PyTuple("a,b"), PyObject("CrewOutput")}

WriteFaults == {"none", "write"}

DepartmentFilters == {None, "marketing", "technology"}

BackendFilters == {None, "crewai"}

LogicalEntry(department, backend_name, params) ==
    [department |-> department, backend |-> backend_name,
     params |-> Mapping(params)]

InitCache ==
    /\ InitManager({NewBackend("crewai", FALSE)})
    /\ cache \in {WorkflowCache(t, e) : t \in TtlValues, e \in BOOLEAN}
    /\ InitStore
    /\ InitFactory

NewWorkflowCache ==
    \E t \in TtlValues, e \in BOOLEAN :
      /\ cache' = WorkflowCache(t, e)
      /\ UNCHANGED <<aliases, factoryVars, backend, serial, runs, context_store, task_results,
                     workflow_metadata, run, held, call, built, stored,
                     cache_files, now, lookup, written, inflight>>

Tick ==
    /\ now < MaxTime
    /\ now' = now + 1
    /\ UNCHANGED <<aliases, factoryVars, backend, serial, runs, context_store, task_results,
                   workflow_metadata, run, held, call, built, stored,
                   cache, cache_files, lookup, written, inflight>>

CacheSet ==
    \E department \in CacheDepartments, backend_name \in CacheBackends,
       params \in CacheParams, result \in CacheResults, fault \in WriteFaults :
      /\ cache_files' = set(cache, cache_files, now, department, backend_name,
                            params, result, fault)
      /\ written' =
           IF cache.enabled
           THEN DictSet(written, LogicalEntry(department, backend_name, params),
                        [params |-> params, result |-> result, at |-> now,
                         ttl_seconds |-> cache.ttl_seconds,
                         wrote |-> set_wrote(cache, result, fault)])
           ELSE written
      /\ UNCHANGED <<aliases, factoryVars, backend, serial, runs, context_store, task_results,
                     workflow_metadata, run, held, call, built, stored,
                     cache, now, lookup, inflight>>

CacheGet ==
    \E department \in CacheDepartments, backend_name \in CacheBackends,
       params \in CacheParams :
      LET r == get(cache, cache_files, now, department, backend_name, params)
      IN /\ cache_files' = r.files
         /\ lookup' = [op |-> "get", department |-> department,
                       backend |-> backend_name, params |-> params,
                       result |-> r.result, count |-> 0]
         /\ UNCHANGED <<aliases, factoryVars, backend, serial, runs, context_store, task_results,
                        workflow_metadata, run, held, call, built, stored,
                        cache, now, written, inflight>>

CacheInvalidate ==
    \E department \in DepartmentFilters, backend_name \in BackendFilters :
      LET r == invalidate(cache, cache_files, department, backend_name)
      IN /\ cache_files' = r.files
         /\ lookup' = [op |-> "invalidate", department |-> department,
                       backend |-> backend_name, params |-> <<>>,
                       result |-> PyNone, count |-> r.count]
         /\ written' = EmptyDict
         /\ UNCHANGED <<aliases, factoryVars, backend, serial, runs, context_store, task_results,
                        workflow_metadata, run, held, call, built, stored,
                        cache, now, inflight>>

NextCache ==
    \/ NewWorkflowCache
    \/ Tick
    \/ CacheSet
    \/ CacheGet
    \/ CacheInvalidate

SpecCache == InitCache /\ [][NextCache]_vars

(***************************************************************************)
(* Claims about the WorkflowCache (specification SpecCache).               *)
(***************************************************************************)
IsHit(r) == r.result # PyNone

\* The params dicts that are the same logical mapping as an entry's.
SameMapping(entry) == {p \in CacheParams : Mapping(p) = entry.params}

Elapsed(entry) == now - written[entry].at

\* C3: on an enabled cache, after set(u, b, p, r), a get(u, b, p') issued
\* before the TTL elapses and before any invalidation, with p' the same
\* mapping as p in any insertion order, is a hit that returns exactly r.
C3_HitReturnsWhatWasSet ==
    \A entry \in DOMAIN written : \A p \in SameMapping(entry) :
      (cache.enabled /\ Elapsed(entry) < written[entry].ttl_seconds) =>
        LET r == get(cache, cache_files, now, entry.department, entry.backend, p)
        IN IsHit(r) /\ r.result = written[entry].result

\* C3 as amended: on an enabled cache, after a set(u, b, p, r) that wrote
\* its record, a get(u, b, p') issued while the elapsed time is below the
\* ttl_seconds of the cache doing the get and before any invalidation, with
\* p' the same mapping as p in any insertion order, finds the record written
\* for p and returns the JSON decoding of the JSON encoding of r.
C3_HitReturnsWhatWasWritten ==
    \A entry \in DOMAIN written : \A p \in SameMapping(entry) :
      /\ generate_cache_key(entry.department, entry.backend, p)
           = generate_cache_key(entry.department, entry.backend,
                                written[entry].params)
      /\ (cache.enabled /\ written[entry].wrote
            /\ Elapsed(entry) < cache.ttl_seconds) =>
           LET r == get(cache, cache_files, now,
                        entry.department, entry.backend, p)
           IN r.result = json_load(json_dump(written[entry].result))

\* C3 witness: a get with the items in another order than the set used
\* returned the value that set stored.
C3_Witness ==
    /\ lookup.op = "get"
    /\ IsHit(lookup)
    /\ \E entry \in DOMAIN written :
         /\ entry = LogicalEntry(lookup.department, lookup.backend, lookup.params)
         /\ written[entry].params # lookup.params
         /\ written[entry].wrote
         /\ lookup.result = json_load(json_dump(written[entry].result))
         /\ Elapsed(entry) < cache.ttl_seconds

\* C4: an entry written with ttl = T is returned by get at every elapsed
\* time below T and is a miss at every elapsed time of T or more.
C4_HitExactlyBelowWrittenTtl ==
    \A entry \in DOMAIN written : \A p \in SameMapping(entry) :
      (cache.enabled /\ written[entry].wrote) =>
        (IsHit(get(cache, cache_files, now, entry.department, entry.backend, p))
           <=> Elapsed(entry) < written[entry].ttl_seconds)

\* C5: an entry written under ttl = T1 and looked up through a cache
\* configured with another ttl = T2 is a hit exactly while elapsed < T1.
C5_WriteTimeTtlDecides ==
    \A entry \in DOMAIN written :
      (cache.enabled /\ written[entry].wrote
         /\ cache.ttl_seconds # written[entry].ttl_seconds) =>
        (IsHit(get(cache, cache_files, now, entry.department, entry.backend,
                   written[entry].params))
           <=> Elapsed(entry) < written[entry].ttl_seconds)

(***************************************************************************)
(* Specification SpecFactory: the environment variable and the             *)
(* configuration file change, and a caller calls create_backend.           *)
(***************************************************************************)
EnvValues == {None, "", "crewai", "claude_code", "unknown"}

ConfigFiles ==
    {MissingFile, InvalidFile, YamlFile(EmptyDict),
     YamlFile([backend |-> "crewai"]),
     YamlFile([backend |-> "claude_code"]),
     YamlFile([backend |-> "unknown"]),
     YamlFile([claude_code |-> [parallel_execution |-> FALSE]])}

BackendTypeArgs == {None, "crewai", "CREWAI", "claude_code", "unknown"}

ConfigArgs ==
    {NoConfig, GivenConfig(EmptyDict), GivenConfig([backend |-> "claude_code"]),
     GivenConfig([backend |-> "unknown"])}

managerVars ==
    <<backend, serial, runs, context_store, task_results, workflow_metadata,
      run, held, call, built, stored, aliases>>

SetEnviron ==
    \E env \in EnvValues :
      /\ environ' = env
      /\ UNCHANGED <<managerVars, cacheVars, config_file, made>>

WriteConfigFile ==
    \E file \in ConfigFiles :
      /\ config_file' = file
      /\ UNCHANGED <<managerVars, cacheVars, environ, made>>

CreateBackend ==
    \E backend_type \in BackendTypeArgs, config_arg \in ConfigArgs,
       import_fails \in BOOLEAN :
      LET r == create_backend(backend_type, config_arg, config_file, environ,
                              import_fails)
      IN /\ made' = [op |-> "create_backend", backend_type |-> backend_type,
                     config |-> config_arg, file |-> config_file,
                     env |-> environ, raised |-> r.raised, error |-> r.error,
                     resolved |-> r.resolved, backend |-> r.backend,
                     initialized |-> r.initialized]
         /\ UNCHANGED <<managerVars, cacheVars, environ, config_file>>

NextFactory ==
    \/ SetEnviron
    \/ WriteConfigFile
    \/ CreateBackend

InitFactoryCalls ==
    /\ InitManager({NewBackend("crewai", FALSE)})
    /\ cache = WorkflowCache(ttl_seconds_default, TRUE)
    /\ InitStore
    /\ InitFactory

SpecFactory == InitFactoryCalls /\ [][NextFactory]_vars

(***************************************************************************)
(* Claims about the BackendFactory (specification SpecFactory).            *)
(***************************************************************************)
\* The configuration the call loaded could not be read (invalid YAML).
LoadFailed(m) == ~m.config.given /\ m.file.state = "invalid"

EnvNames(m) == m.env # None /\ m.env # ""

\* The backend named by the configuration itself: the dict the caller
\* passed, or else the file.
ConfigurationNames(m) ==
    IF m.config.given THEN "backend" \in DOMAIN m.config.config
    ELSE m.file.state = "ok" /\ "backend" \in DOMAIN m.file.config

ConfigurationBackend(m) ==
    IF m.config.given THEN m.config.config["backend"] ELSE m.file.config["backend"]

\* C11: create_backend resolves the backend with precedence explicit
\* argument > loaded configuration field > environment default: with no
\* argument, a backend named in the configuration wins over the one named
\* by the environment.
C11_ConfigurationBeforeEnvironment ==
    (made.op = "create_backend" /\ ~LoadFailed(made)) =>
      made.resolved =
        lower(IF made.backend_type # None THEN made.backend_type
              ELSE IF ConfigurationNames(made) THEN ConfigurationBackend(made)
              ELSE IF EnvNames(made) THEN made.env
              ELSE "crewai")

\* C11 as amended: create_backend resolves the backend with precedence
\* explicit argument > configuration dict passed by the caller > non-empty
\* AI_COMPANY_BACKEND > backend field of the configuration file > "crewai":
\* with no argument and no configuration dict, the backend named by the
\* environment wins over the one named in the configuration file.
C11_EnvironmentBeforeConfigurationFile ==
    (made.op = "create_backend" /\ ~LoadFailed(made)) =>
      made.resolved =
        lower(IF made.backend_type # None THEN made.backend_type
              ELSE IF made.config.given
                   THEN IF ConfigurationNames(made)
                        THEN ConfigurationBackend(made) ELSE "crewai"
              ELSE IF EnvNames(made) THEN made.env
              ELSE IF ConfigurationNames(made) THEN ConfigurationBackend(made)
              ELSE "crewai")

\* C11 witness: with no argument, a file naming claude_code and an
\* environment naming crewai, create_backend made the crewai backend.
C11_Witness ==
    /\ made.op = "create_backend"
    /\ made.backend_type = None
    /\ ~made.config.given
    /\ made.file = YamlFile([backend |-> "claude_code"])
    /\ made.env = "crewai"
    /\ ~made.raised
    /\ made.backend.kind = "crewai"

\* The identifier the caller passed is not a known backend.
UnknownArgument(m) ==
    m.backend_type # None /\ lower(m.backend_type) \notin BackendType

C13_UnknownIdentifierIsValueError ==
    (made.op = "create_backend" /\ ~LoadFailed(made)
       /\ made.resolved \notin BackendType) =>
      /\ made.raised
      /\ made.error.message = "Unknown backend type"
      /\ issubclass(made.error.type, "ValueError")

(***************************************************************************)
(* Claims about failed creations in a run (specification Spec).            *)
(***************************************************************************)
CallsOf(calls, op) == {i \in DOMAIN calls : calls[i].op = op}

CreationErrors == {"agent_creation_failed", "agent_not_found", "task_creation_failed"}

\* Some create_agent or create_task call of the run returned no handle.
CreationFailed(r) ==
    \/ Cardinality(CallsOf(r.calls, "create_agent")) > Len(r.agents)
    \/ Cardinality(CallsOf(r.calls, "create_task")) > Len(r.tasks)

\* C14: if a create_agent or create_task call fails during a run, the run is
\* aborted: the error of that call reaches the caller, execute_workflow is
\* never called in that run, and no outputs are returned.
C14_CreationFailureAbortsRun ==
    (run.op # "none" /\ CreationFailed(run)) =>
      /\ run.outcome = "raised"
      /\ run.error \in CreationErrors
      /\ run.calls[Len(run.calls)].op \in {"create_agent", "create_task"}
      /\ CallsOf(run.calls, "execute_workflow") = {}
      /\ run.executed_as = "none"
      /\ run.outputs = EmptyDict

\* C14 witness: a run raised at a create_agent call after an earlier
\* create_agent call of the same run had succeeded.
C14_Witness ==
    /\ run.op # "none"
    /\ CreationFailed(run)
    /\ Len(run.agents) >= 1
    /\ run.outcome = "raised"
    /\ run.error = "agent_creation_failed"

(***************************************************************************)
(* Specification SpecStore: callers share one cache directory.  set is two *)
(* steps, open(cache_file, 'w') which truncates the file and json.dump     *)
(* which fills it; get is three steps, cache_file.exists(), stat() with    *)
(* the age test, and open with json.load; invalidate is one step.  A file  *)
(* that was unlinked while a writer holds it open no longer belongs to     *)
(* the directory, and what that writer writes is lost.                     *)
(***************************************************************************)
StoreDepartments == {"marketing", "technology"}

StoreBackend == "crewai"

StoreParams == <<Item("goal", "x")>>

StoreResults == {PyStr("report"), PyObject("CrewOutput")}

StoreDepartmentFilters == {None, "marketing", "technology"}

StoreBackendFilters == {None, "crewai", "claude_code"}

StoreKey(department) == generate_cache_key(department, StoreBackend, StoreParams)

\* The writers that hold one of the removed files open lose their link.
Unlinked(sets, removed) ==
    [w \in Writers |->
        IF sets[w].pc = "opened" /\ StoreKey(sets[w].department) \in removed
        THEN [sets[w] EXCEPT !.linked = FALSE] ELSE sets[w]]

SetOpen ==
    \E w \in Writers, department \in StoreDepartments, result \in StoreResults :
      /\ cache.enabled
      /\ inflight.sets[w].pc = "idle"
      /\ cache_files' = DictSet(cache_files, StoreKey(department), CorruptFile(now))
      /\ inflight' = [inflight EXCEPT !.sets[w] =
                        [pc |-> "opened", department |-> department,
                         result |-> result, linked |-> TRUE]]
      /\ UNCHANGED <<managerVars, factoryVars, cache, now, lookup, written>>

\* complete is FALSE when the bytes of this writer land on top of a record
\* another writer completed in the same file after this writer truncated it
\* and the two do not add up to one JSON document.
SetWrite ==
    \E w \in Writers, complete \in BOOLEAN :
      LET me == inflight.sets[w]
          key == StoreKey(me.department)
      IN /\ me.pc = "opened"
         /\ ~complete => (me.linked /\ key \in DOMAIN cache_files
                            /\ cache_files[key].readable)
         /\ cache_files' =
              IF me.linked
              THEN set(cache, cache_files, now, me.department, StoreBackend,
                       StoreParams, me.result,
                       IF complete THEN "none" ELSE "write")
              ELSE cache_files
         /\ inflight' = [inflight EXCEPT !.sets[w] = IdleSet]
         /\ UNCHANGED <<managerVars, factoryVars, cache, now, lookup, written>>

GetExists ==
    \E department \in StoreDepartments :
      /\ cache.enabled
      /\ inflight.get.pc = "idle"
      /\ inflight' = [inflight EXCEPT !.get =
                        IF StoreKey(department) \in DOMAIN cache_files
                        THEN [IdleGet EXCEPT !.pc = "exists",
                                             !.department = department]
                        ELSE [IdleGet EXCEPT !.department = department,
                                             !.outcome = "miss"]]
      /\ UNCHANGED <<managerVars, factoryVars, cache, cache_files, now,
                     lookup, written>>

\* cache_file.stat() raises FileNotFoundError outside any try block.
GetStat ==
    LET me == inflight.get
        key == StoreKey(me.department)
    IN /\ me.pc = "exists"
       /\ inflight' = [inflight EXCEPT !.get =
                         IF key \notin DOMAIN cache_files
                         THEN [me EXCEPT !.pc = "idle", !.outcome = "raised",
                                         !.error = "FileNotFoundError"]
                         ELSE IF is_cache_valid(cache, cache_files, now, key)
                              THEN [me EXCEPT !.pc = "valid"]
                              ELSE [me EXCEPT !.pc = "idle", !.outcome = "miss"]]
       /\ UNCHANGED <<managerVars, factoryVars, cache, cache_files, now,
                      lookup, written>>

\* open() of a file that is gone raises FileNotFoundError, an IOError the
\* except clause catches.
GetRead ==
    LET me == inflight.get
        key == StoreKey(me.department)
        r == get(cache, cache_files, now, me.department, StoreBackend, StoreParams)
    IN /\ me.pc = "valid"
       /\ cache_files' = IF key \in DOMAIN cache_files THEN r.files ELSE cache_files
       /\ inflight' =
            [sets |-> Unlinked(inflight.sets, DOMAIN cache_files \ DOMAIN cache_files'),
             get |-> IF key \in DOMAIN cache_files /\ r.result # PyNone
                     THEN [me EXCEPT !.pc = "idle", !.outcome = "hit",
                                     !.result = r.result]
                     ELSE [me EXCEPT !.pc = "idle", !.outcome = "miss"]]
       /\ UNCHANGED <<managerVars, factoryVars, cache, now, lookup, written>>

StoreInvalidate ==
    \E department \in StoreDepartmentFilters, backend_name \in StoreBackendFilters :
      LET r == invalidate(cache, cache_files, department, backend_name)
      IN /\ cache_files' = r.files
         /\ lookup' = [op |-> "invalidate", department |-> department,
                       backend |-> backend_name, params |-> <<>>,
                       result |-> PyNone, count |-> r.count]
         /\ inflight' = [inflight EXCEPT !.sets =
                           Unlinked(@, DOMAIN cache_files \ DOMAIN r.files)]
         /\ UNCHANGED <<managerVars, factoryVars, cache, now, written>>

NextStore ==
    \/ SetOpen
    \/ SetWrite
    \/ GetExists
    \/ GetStat
    \/ GetRead
    \/ StoreInvalidate

SpecStore == InitFactoryCalls /\ [][NextStore]_vars

(***************************************************************************)
(* Claims about callers sharing the cache (specification SpecStore).       *)
(***************************************************************************)
\* The files a writer is in the middle of storing.
BeingStored ==
    {StoreKey(inflight.sets[w].department) :
        w \in {x \in Writers : inflight.sets[x].pc = "opened"
                                 /\ inflight.sets[x].linked}}

\* C15: under any interleaving of set calls on one key with get calls, no
\* get observes a partial record, and so no get deletes an entry that a
\* writer is in the middle of storing.
C15_NoGetDeletesEntryBeingStored ==
    [][inflight'.get # inflight.get =>
         \A key \in BeingStored : key \in DOMAIN cache_files']_vars

\* C16: get and set never raise to the caller, whatever the state of the
\* store: a record removed by a concurrent invalidate between the
\* existence check and the stat or read is reported as a miss.
C16_GetNeverRaises == inflight.get.outcome # "raised"

\* A readable record passes the filters of an invalidate call; an omitted
\* filter passes everything.
MatchesFilters(data, department, backend_name) ==
    /\ department # None => data.department = department
    /\ backend_name # None => data.backend = backend_name

\* C18: after invalidate(unit?, backend?) on an enabled cache no readable
\* entry matching all given filters remains, every readable entry that
\* fails a given filter is still present and unchanged, and the number
\* returned is the number of entries the call removed.
C18_InvalidateRemovesExactlyMatches ==
    [][(lookup'.op = "invalidate" /\ inflight'.get = inflight.get
          /\ \A w \in Writers : inflight'.sets[w].pc = inflight.sets[w].pc
          /\ cache.enabled) =>
         /\ \A key \in DOMAIN cache_files' :
              cache_files'[key].readable =>
                ~MatchesFilters(cache_files'[key].data,
                                lookup'.department, lookup'.backend)
         /\ \A key \in DOMAIN cache_files :
              (cache_files[key].readable
                 /\ ~MatchesFilters(cache_files[key].data,
                                    lookup'.department, lookup'.backend)) =>
                (key \in DOMAIN cache_files'
                   /\ cache_files'[key] = cache_files[key])
         /\ lookup'.count =
              Cardinality(DOMAIN cache_files \ DOMAIN cache_files')]_vars

\* C18 witness: an invalidate with a department filter removed one of two
\* readable entries and left the other.
C18_Witness ==
    /\ lookup.op = "invalidate"
    /\ lookup.department = "marketing"
    /\ lookup.count = 1
    /\ StoreKey("marketing") \notin DOMAIN cache_files
    /\ StoreKey("technology") \in DOMAIN cache_files
    /\ cache_files[StoreKey("technology")].readable
    /\ inflight = NoInflight

(***************************************************************************)
(* Further claims about the WorkflowCache (specification SpecCache).       *)
(***************************************************************************)
\* C17: whenever get is called on a key whose persisted record is
\* unreadable or corrupt, the lookup is a miss and that access removes the
\* record, whatever the record's age.
C17_CorruptRecordRemovedOnGet ==
    \A key \in DOMAIN cache_files :
      (cache.enabled /\ ~cache_files[key].readable) =>
        LET r == get(cache, cache_files, now,
                     key.department, key.backend, key.params)
        IN r.result = PyNone /\ key \notin DOMAIN r.files

\* C19: if set fails while writing, the store is left exactly as it was
\* before the call, so that an unexpired entry stored earlier under the
\* same key is still returned by the next get.
C19_FailedSetLeavesStore ==
    [][(written' # written
          /\ \E entry \in DOMAIN written' : ~written'[entry].wrote) =>
         cache_files' = cache_files]_vars

(***************************************************************************)
(* Further claims about the Context Manager (specification SpecContext).   *)
(***************************************************************************)
\* C20: workflow metadata is write-once per run: once set since the last
\* clear, a further set_workflow_metadata before the next clear does not
\* change the metadata that get_workflow_metadata returns and that
\* build_context_for_task injects.
C20_MetadataWriteOnce ==
    [][(DOMAIN workflow_metadata # {} /\ DOMAIN workflow_metadata' # {}) =>
         workflow_metadata' = workflow_metadata]_vars

(***************************************************************************)
(* Claims about execution by the Claude Code backend (specification        *)
(* SpecBackend).  When call.op is "execute_workflow", held.tasks is the    *)
(* task list that call was given.                                          *)
(***************************************************************************)
\* C22: in a parallel-mode execution of a task list only tasks without a
\* declared dependency are placed in the parallel batch, and every task
\* with a declared dependency is still executed, after the tasks it depends
\* on, so that its output appears in the result.
C22_DependentTasksStillExecuted ==
    (call.op = "execute_workflow" /\ call.executed_as = "parallel") =>
        \A i \in DOMAIN held.tasks :
            held.tasks[i].agent_role \in DOMAIN call.result.outputs

\* The id f"task_{i}" of the task at position i of the list (from 0).
ImplicitTaskId(i) ==
    CASE i = 0 -> "task_0"
      [] i = 1 -> "task_1"
      [] i = 2 -> "task_2"
      [] OTHER -> "task_3"

\* C28: in sequential execution by the Claude Code backend a task created
\* without task_id is recorded under task_<i>, i its position in the list,
\* so that a later task that depends on task_<i> receives its output under
\* previous_output_task_<i>.
C28_ImplicitTaskIds ==
    (call.op = "execute_workflow" /\ backend.kind = "claude_code"
       /\ call.executed_as = "sequential") =>
        LET tasks == held.tasks
            task_outputs == sequential_run(tasks).task_outputs
        IN \A i \in DOMAIN tasks :
             tasks[i].task_id = None =>
               /\ ImplicitTaskId(i - 1) \in DOMAIN task_outputs
               /\ \A j \in DOMAIN tasks :
                    (j > i /\ ImplicitTaskId(i - 1) \in Range(tasks[j].depends_on)
                       /\ \A k \in DOMAIN tasks :
                            k > j => tasks[k].agent_role # tasks[j].agent_role) =>
                      previous_output_key(ImplicitTaskId(i - 1)) \in
                          DOMAIN call.result.outputs[tasks[j].agent_role].context

AllIndependent(tasks) == \A i \in DOMAIN tasks : tasks[i].depends_on = <<>>

\* C30: for every task list in which no task declares a dependency, the
\* Claude Code backend's parallel execution and its sequential execution
\* return the same outputs map.
C30_ParallelEqualsSequential ==
    (backend.kind = "claude_code" /\ AllIndependent(held.tasks)) =>
        execute_parallel(held.tasks) = execute_sequential(held.tasks)

\* C30 witness: a parallel execution of two dependency-free tasks of
\* different roles returned what the sequential loop returns for them.
C30_Witness ==
    /\ call.op = "execute_workflow"
    /\ call.executed_as = "parallel"
    /\ Len(held.tasks) = 2
    /\ AllIndependent(held.tasks)
    /\ held.tasks[1].agent_role # held.tasks[2].agent_role
    /\ DOMAIN call.result.outputs =
           {held.tasks[1].agent_role, held.tasks[2].agent_role}
    /\ call.result.outputs = execute_sequential(held.tasks)

(***************************************************************************)
(* Further claims about the Workflow Manager (specification Spec).  A run  *)
(* is one step, so every state with run.op # "none" is the state a next    *)
(* run starts in.                                                          *)
(***************************************************************************)
\* The definition of a task for the role with this title.
TaskFor(title) ==
    TaskDefinition([of |-> "direct", step |-> 0, arg |-> ""], title,
                   EmptyDict, <<>>, None)

\* C23: agent handles are scoped to one run: a task created in a run is
\* bound to an agent created in that run, and in the run that follows,
\* create_task for a role whose agent was created only in an earlier run
\* fails with agent-not-found.
C23_HandlesScopedToRun ==
    run.op # "none" =>
        /\ backend.kind = "crewai" =>
             \A i \in DOMAIN run.tasks :
                 run.tasks[i].agent \in Range(run.agents)
        /\ \A title \in Titles(get_hierarchy) :
             LET r == create_task(backend, TaskFor(title), FALSE)
             IN r.raised /\ r.error = "agent_not_found"

\* C24: agent handles are keyed by role identity, not display title: when
\* two participants created in one run have the same display title, the
\* second does not replace the first and each participant's task is bound
\* to that participant's own agent.
C24_TaskBoundToOwnAgent ==
    (run.op = "cross_functional" /\ backend.kind = "crewai") =>
        \A i \in DOMAIN run.tasks : run.tasks[i].agent = run.agents[i]

Rank(op) ==
    CASE op = "create_agent" -> 1
      [] op = "create_task" -> 2
      [] op = "set_workflow_metadata" -> 3
      [] op = "execute_workflow" -> 4
      [] op = "clear" -> 5

\* The arguments of the calls of one operation, in call order.
ArgsOf(calls, op) ==
    LET picked == SelectSeq(calls, LAMBDA c : c.op = op)
    IN [i \in DOMAIN picked |-> picked[i].arg]

\* The position of a title in a sequence of titles or roles (0: absent).
PositionIn(titles, title) ==
    IF \E i \in DOMAIN titles : titles[i] = title
    THEN CHOOSE i \in DOMAIN titles : titles[i] = title
    ELSE 0

Increasing(positions) ==
    \A i, j \in DOMAIN positions : i < j => positions[i] < positions[j]

CatalogTitles == [i \in DOMAIN get_hierarchy |-> get_hierarchy[i].title]

\* The titles the steps of a department's template name, as written in
\* _create_<department>_tasks.
TemplateSteps(department) ==
    CASE department = "marketing" ->
            <<"Marketing Analyst", "Content Marketing Expert", "Head of Marketing">>
      [] department = "software_development" ->
            <<"Head of Software Development", "Senior Software Developer",
              "QA Analyst">>
      [] department = "operations" -> <<"Operations Analyst", "Head of Operations">>
      [] department = "human_resources" ->
            <<"Recruitment Specialist", "Head of Human Resources">>
      [] department = "commercial" -> <<"Sales Analyst", "Head of Commercial">>
      [] department = "executive" -> <<"CTO", "CEO">>

C26_TasksNameCreatedAgents ==
    run.op # "none" =>
        /\ run.error # "agent_not_found"
        /\ Range(ArgsOf(run.calls, "create_task")) \subseteq
               Range(AgentRoles(run.agents))
        /\ Range(TaskRoles(run.tasks)) \subseteq Range(AgentRoles(run.agents))
        /\ (run.op = "department" /\ run.outcome = "returned") =>
               TaskRoles(run.tasks) =
                   SelectSeq(TemplateSteps(run.scopes[1]),
                             LAMBDA t : t \in run.participants)

\* C26 witness: the human resources run returned with the one task whose
\* step names a participant; the step naming "Head of Human Resources",
\* which is no participant, produced nothing.
C26_Witness ==
    /\ run.op = "department"
    /\ run.scopes = <<"human_resources">>
    /\ run.outcome = "returned"
    /\ TaskRoles(run.tasks) = <<"Recruitment Specialist">>
    /\ "Head of Human Resources" \notin run.participants

\* C27: for every department of the catalog a single-scope run skips no
\* template step: as many tasks are submitted as the template has steps,
\* and a department with a head-level role submits a task for that head.
C27_NoTemplateStepSkipped ==
    (run.op = "department" /\ run.outcome = "returned") =>
        /\ Len(run.tasks) = Len(TemplateSteps(run.scopes[1]))
        /\ HeadTitles(run.scopes[1]) \subseteq Range(TaskRoles(run.tasks))

(***************************************************************************)
(* Claims about the contexts the Context Manager builds (specification     *)
(* SpecContext).                                                           *)
(***************************************************************************)
\* The dependencies of the list that have a stored result.
Resolved(dependencies) == {d \in Range(dependencies) : d \in DOMAIN task_results}

\* C21: build_context_for_task layers its result in a fixed order: the
\* task's own declared context, then output_from_<id> for each resolved
\* dependency, then every key of the extra map, overriding any earlier
\* value, and last the workflow metadata under workflow_metadata, added
\* exactly when the metadata is non-empty and overriding an extra entry of
\* that name.
C21_LayeredContext ==
    built.op = "build_context_for_task" =>
        LET extra == built.additional_context
            outputs == {output_from_key(d) : d \in Resolved(built.dependencies)}
            metadata == IF DOMAIN workflow_metadata # {}
                        THEN {"workflow_metadata"} ELSE {}
        IN /\ DOMAIN built.context =
                  DOMAIN built.own \cup outputs \cup DOMAIN extra \cup metadata
           /\ \A key \in DOMAIN built.context :
                  IF key \in metadata
                  THEN built.context[key] = workflow_metadata
                  ELSE IF key \in DOMAIN extra
                  THEN built.context[key] = extra[key]
                  ELSE IF key \in outputs
                  THEN \E d \in Resolved(built.dependencies) :
                           /\ output_from_key(d) = key
                           /\ built.context[key] = task_results[d]
                  ELSE built.context[key] = built.own[key]

\* C21 witness: a context built from a declared context, a resolved
\* dependency B, an extra map that has the keys output_from_B and
\* workflow_metadata, and non-empty metadata: the extra value is under
\* output_from_B and the metadata under workflow_metadata.
C21_Witness ==
    /\ built.op = "build_context_for_task"
    /\ built.dependencies = <<"A", "B">>
    /\ {"A", "B"} \subseteq DOMAIN task_results
    /\ DOMAIN built.own = {"k"}
    /\ "output_from_B" \in DOMAIN built.additional_context
    /\ DOMAIN workflow_metadata # {}
    /\ built.context["k"] = "v"
    /\ built.context["output_from_A"] = task_results["A"]
    /\ built.context["output_from_B"] = "w"
    /\ built.context["workflow_metadata"] = workflow_metadata

\* C29: a context returned by build_context_for_task is a snapshot: later
\* set_workflow_metadata, store_result, add_context or clear calls change
\* none of its entries, and clear does not modify the map the caller passed
\* to set_workflow_metadata.
C29_ReturnedContextIsSnapshot ==
    [][(aliases.returned.given /\ built'.op = "none") =>
         /\ aliases'.returned = aliases.returned
         /\ (DOMAIN workflow_metadata # {} /\ DOMAIN workflow_metadata' = {}) =>
                aliases'.passed = aliases.passed]_vars

====
